---------------------------- MODULE Spec2Model ----------------------------
(***************************************************************************)
(* Model of lib/schema.js (class Schema): the schema aggregate, its       *)
(* document-key policy, index registration, schema composition, and the   *)
(* two key helpers getDocumentKeyValue and getRefKey.                      *)
(*                                                                         *)
(* JavaScript strings are sequences of one-character strings.  A value     *)
(* that is not a string (undefined, null) is a one-element sequence whose  *)
(* element is a longer word, so it never equals a string.                  *)
(***************************************************************************)
EXTENDS Integers, Sequences, FiniteSets, TLC

VARIABLES
  schemas,   \* the two Schema objects, "A" and "B"
  last,      \* the last call made on a schema: operation, target, arguments, error
  ids,       \* an identifier and what successive getDocumentKeyValue calls return
  hist,      \* the full flag of each of those calls
  refCalls   \* the getRefKey calls made: index name, value, key returned

vars == <<schemas, last, ids, hist, refCalls>>

-----------------------------------------------------------------------------
(* JavaScript values                                                       *)

Undefined == <<"undefined">>
Null == <<"null">>

\* _.isString
IsString(x) == x \notin {Undefined, Null}

\* the text String.prototype.concat appends for an argument
ToText(x) ==
  IF x = Undefined THEN <<"u", "n", "d", "e", "f", "i", "n", "e", "d">>
  ELSE IF x = Null THEN <<"n", "u", "l", "l">>
  ELSE x

\* x || '' for a string-or-missing option
OrEmpty(x) == IF IsString(x) /\ x # <<>> THEN x ELSE <<>>

\* "c" repeated n times
Rep(c, n) == [i \in 1..n |-> c]

RECURSIVE ConcatAll(_)
ConcatAll(ss) == IF ss = <<>> THEN <<>> ELSE Head(ss) \o ConcatAll(Tail(ss))

StartsWith(s, p) == Len(s) >= Len(p) /\ SubSeq(s, 1, Len(p)) = p

\* characters whose UTF-8 encoding takes more than one byte
TwoByteChars == {"é", "É"}
ThreeByteChars == {"€"}

\* Buffer.byteLength(s): the UTF-8 length of s
ByteLength(s) ==
  Len(s) + Cardinality({ i \in 1..Len(s) : s[i] \in TwoByteChars })
         + (2 * Cardinality({ i \in 1..Len(s) : s[i] \in ThreeByteChars }))

UpperOf(c) ==
  CASE c = "a" -> "A"
    [] c = "b" -> "B"
    [] c = "c" -> "C"
    [] c = "d" -> "D"
    [] c = "e" -> "E"
    [] c = "f" -> "F"
    [] c = "h" -> "H"
    [] c = "s" -> "S"
    [] c = "é" -> "É"
    [] OTHER -> c

LowerOf(c) ==
  CASE c = "A" -> "a"
    [] c = "B" -> "b"
    [] c = "C" -> "c"
    [] c = "D" -> "d"
    [] c = "E" -> "e"
    [] c = "F" -> "f"
    [] c = "H" -> "h"
    [] c = "S" -> "s"
    [] c = "É" -> "é"
    [] OTHER -> c

\* String.prototype.toUpperCase / toLowerCase, on the characters the model uses
ToUpperCase(s) == [i \in 1..Len(s) |-> UpperOf(s[i])]

ToLowerCase(s) == [i \in 1..Len(s) |-> LowerOf(s[i])]

-----------------------------------------------------------------------------
(* Regular expressions, as far as getDocumentKeyValue uses them            *)

\* the characters escape-string-regexp escapes
RegExpSpecial == {"|", "\\", "{", "}", "(", ")", "[", "]", "^", "$", "+", "*", "?", "."}

\* the characters "." does not match (no s flag)
LineTerminators == {"\n", "\r"}

RECURSIVE escapeStringRegexp(_)
escapeStringRegexp(s) ==
  IF s = <<>> THEN <<>>
  ELSE (IF Head(s) \in RegExpSpecial THEN <<"\\", Head(s)>> ELSE <<Head(s)>>)
       \o escapeStringRegexp(Tail(s))

Tok(k, c) == [k |-> k, c |-> c]

\* new RegExp(source): the pattern as a sequence of tokens
RECURSIVE RegExpOf(_)
RegExpOf(src) ==
  IF src = <<>> THEN <<>>
  ELSE IF Head(src) = "\\" /\ Len(src) >= 2
    THEN <<Tok("lit", src[2])>> \o RegExpOf(SubSeq(src, 3, Len(src)))
  ELSE IF Head(src) = "." /\ Len(src) >= 2 /\ src[2] = "*"
    THEN <<Tok("dotstar", "")>> \o RegExpOf(SubSeq(src, 3, Len(src)))
  ELSE IF Head(src) = "." THEN <<Tok("dot", "")>> \o RegExpOf(Tail(src))
  ELSE IF Head(src) = "^" THEN <<Tok("bol", "")>> \o RegExpOf(Tail(src))
  ELSE IF Head(src) = "$" THEN <<Tok("eol", "")>> \o RegExpOf(Tail(src))
  ELSE <<Tok("lit", Head(src))>> \o RegExpOf(Tail(src))

\* the positions at which a match of re[k..] that starts at position j of s can end
RECURSIVE MatchEnds(_, _, _, _)
MatchEnds(re, k, s, j) ==
  IF k > Len(re) THEN {j}
  ELSE LET t == re[k] IN
    CASE t.k = "bol" -> IF j = 1 THEN MatchEnds(re, k + 1, s, j) ELSE {}
      [] t.k = "eol" -> IF j = Len(s) + 1 THEN MatchEnds(re, k + 1, s, j) ELSE {}
      [] t.k = "lit" -> IF j <= Len(s) /\ s[j] = t.c
                          THEN MatchEnds(re, k + 1, s, j + 1) ELSE {}
      [] t.k = "dot" -> IF j <= Len(s) /\ s[j] \notin LineTerminators
                          THEN MatchEnds(re, k + 1, s, j + 1) ELSE {}
      [] t.k = "dotstar" ->
           UNION { MatchEnds(re, k + 1, s, j2) :
                   j2 \in { x \in j..(Len(s) + 1) :
                            \A y \in j..(x - 1) : s[y] \notin LineTerminators } }

\* RegExp.prototype.test
RegExpTest(re, s) == \E i \in 1..(Len(s) + 1) : MatchEnds(re, 1, s, i) # {}

Max(S) == CHOOSE x \in S : \A y \in S : y <= x
Min(S) == CHOOSE x \in S : \A y \in S : x <= y

\* s.replace(re, ''): the first (leftmost, longest) match removed
RegExpRemove(re, s) ==
  LET starts == { i \in 1..(Len(s) + 1) : MatchEnds(re, 1, s, i) # {} } IN
  IF starts = {} THEN s
  ELSE LET i == Min(starts)
           e == Max(MatchEnds(re, 1, s, i))
       IN SubSeq(s, 1, i - 1) \o SubSeq(s, e, Len(s))


-----------------------------------------------------------------------------
(* Property names and maps                                                 *)

ID == <<"i", "d">>
EMAIL == <<"e", "m", "a", "i", "l">>
NAME == <<"n", "a", "m", "e">>
USERS == <<"u", "s", "e", "r", "s">>
ITEM2 == <<"i", "t", "e", "m", "2">>

EmptyMap == [k \in {} |-> 0]

\* obj[k] = v on a map whose key order does not matter
MapPut(m, k, v) == [x \in (DOMAIN m) \cup {k} |-> IF x = k THEN v ELSE m[x]]

\* An object whose key order matters is a sequence of entries [name, d].
HasProp(obj, n) == \E i \in 1..Len(obj) : obj[i].name = n

PropIndex(obj, n) == CHOOSE i \in 1..Len(obj) : obj[i].name = n

GetProp(obj, n) == obj[PropIndex(obj, n)].d

\* obj[n] = d: an existing key keeps its place, a new key goes last
PutProp(obj, n, d) ==
  IF HasProp(obj, n)
    THEN [obj EXCEPT ![PropIndex(obj, n)] = [name |-> n, d |-> d]]
    ELSE Append(obj, [name |-> n, d |-> d])

PropNames(obj) == { obj[i].name : i \in 1..Len(obj) }

-----------------------------------------------------------------------------
(* Property descriptors.  A field the object does not carry is            *)
(* "undefined" (Undefined for the string-valued prefix and suffix).       *)

Prop(shape, type, key, index, ref, prefix, suffix, generate) ==
  [shape |-> shape, type |-> type, key |-> key, index |-> index, ref |-> ref,
   prefix |-> prefix, suffix |-> suffix, generate |-> generate,
   virtual |-> "undefined", get |-> "undefined", set |-> "undefined",
   invisible |-> "undefined", readOnly |-> "undefined"]

\* a bare type tag: String, Number, Object
TypeTag(t) ==
  Prop("type", t, "undefined", "undefined", "undefined", Undefined, Undefined, "undefined")

\* utils.isPlainObject
IsPlainObject(d) == d.shape = "object"

\* normalizeProperties(properties, name): the canonical descriptor, which
\* always carries a type and keeps the fields the raw descriptor declares
normalizeProperties(d, name) ==
  IF d.shape = "type"
    THEN [d EXCEPT !.shape = "object"]
    ELSE [d EXCEPT !.type = IF d.type = "undefined" THEN "any" ELSE d.type]

\* inflection.singularize: the regular English rule
singularize(w) ==
  IF Len(w) >= 2 /\ w[Len(w)] = "s" /\ w[Len(w) - 1] # "s"
    THEN SubSeq(w, 1, Len(w) - 1)
    ELSE w

IndexEntry(path, name, indexType, compound, refKeyCase) ==
  [path |-> path, name |-> name, indexType |-> indexType, compound |-> compound,
   refKeyCase |-> refKeyCase]

\* a property given to index(): one name, or an array of names
OneProp(n) == [arr |-> FALSE, names |-> <<n>>]
ArrProp(ns) == [arr |-> TRUE, names |-> ns]

\* schemaUtils.getRefs on a descriptor map: the properties that declare a ref
getRefs(rawMap) ==
  { rawMap[i].name : i \in { j \in 1..Len(rawMap) :
       rawMap[j].d.shape = "object" /\ rawMap[j].d.ref # "undefined" } }

\* schemaUtils.getIndexes on a descriptor map: the properties flagged index: true
getIndexes(rawMap) ==
  { rawMap[i].name : i \in { j \in 1..Len(rawMap) :
       rawMap[j].d.shape = "object" /\ rawMap[j].d.index = "true" } }

-----------------------------------------------------------------------------
(* The Schema object                                                       *)

Options(keyPrefix, keySuffix, dynamicKey, delimiter, refIndexKeyPrefix, saveOptions) ==
  [strict |-> "true", dotNotation |-> "true",
   keyPrefix |-> keyPrefix, keySuffix |-> keySuffix, dynamicKey |-> dynamicKey,
   delimiter |-> delimiter, refIndexKeyPrefix |-> refIndexKeyPrefix,
   saveOptions |-> saveOptions]

\* a plain-object option value; def = FALSE when the option is not set
NoObject == [def |-> FALSE, expiry |-> "undefined", persist_to |-> "undefined"]

NoOptions == Options(Undefined, Undefined, "undefined", Undefined, Undefined, NoObject)

\* the fields the constructor sets before add(descriptor)  (lines 67-87)
NewSchema(options) ==
  [built |-> TRUE,
   options |-> options,
   methods |-> EmptyMap,
   statics |-> EmptyMap,
   hooks |-> [pre |-> <<>>, post |-> <<>>],
   refs |-> {},
   indexes |-> EmptyMap,
   key |-> [docKeyKey |-> <<>>, prefix |-> Null, suffix |-> Null,
            generate |-> "true", dynamicKey |-> "undefined"],
   descriptor |-> <<>>]

\* no Schema object: none constructed yet, or the constructor raised
Unbuilt == [built |-> FALSE]

\* the outcome of a call: the schema as the call leaves it, and the error raised
Ok(sch) == [s |-> sch, threw |-> ""]
Throw(sch, msg) == [s |-> sch, threw |-> msg]

KeyTypeAllowed(t) == t \in {"undefined", "String", "Number", "'number'", "'string'"}

\* _applyDocumentKey(this.descriptor), from the i-th property on
RECURSIVE applyDocumentKeyFrom(_, _, _)
applyDocumentKeyFrom(sch, i, docKeyFound) ==
  IF i > Len(sch.descriptor)
    THEN IF ~docKeyFound /\ sch.key.docKeyKey = <<>>
           THEN Ok([sch EXCEPT !.key.docKeyKey = ID,
                               !.descriptor = PutProp(sch.descriptor, ID,
                                   normalizeProperties(TypeTag("String"), ID))])
           ELSE Ok(sch)
    ELSE LET prop == sch.descriptor[i].name
             d == sch.descriptor[i].d
         IN IF IsPlainObject(d) /\ d.key = "true"
              THEN IF d.index = "true"
                     THEN Throw(sch, "Schema key cannot be index field")
                   ELSE IF d.ref # "undefined"
                     THEN Throw(sch, "Schema key cannot be reference property")
                   ELSE IF ~KeyTypeAllowed(d.type)
                     THEN Throw(sch, "Schema expects key to be a String or a Number")
                   ELSE applyDocumentKeyFrom(
                          [sch EXCEPT
                             !.key.generate =
                                IF d.generate \in {"true", "false"} THEN d.generate ELSE "false",
                             !.key.docKeyKey = prop,
                             !.key.prefix = IF IsString(d.prefix) THEN d.prefix ELSE @,
                             !.key.suffix = IF IsString(d.suffix) THEN d.suffix ELSE @,
                             !.descriptor = PutProp(sch.descriptor, prop,
                                                    normalizeProperties(d, prop))],
                          i + 1, TRUE)
              ELSE applyDocumentKeyFrom(sch, i + 1, docKeyFound)

applyDocumentKey(sch) == applyDocumentKeyFrom(sch, 1, FALSE)

\* this.refs[elem.path] = elem for each extracted reference
RegisterRefs(sch, paths) == [sch EXCEPT !.refs = @ \cup paths]

RECURSIVE PutIndexes(_, _)
PutIndexes(indexes, paths) ==
  IF paths = {} THEN indexes
  ELSE LET p == CHOOSE x \in paths : TRUE
       IN PutIndexes(MapPut(indexes, p,
                       IndexEntry(OneProp(p), singularize(p), "single", FALSE, "undefined")),
                     paths \ {p})

\* this.indexes[elem.path] = elem for each extracted index
RegisterIndexes(sch, paths) == [sch EXCEPT !.indexes = PutIndexes(@, paths)]

RECURSIVE NormalizeInto(_, _)
NormalizeInto(descriptor, rawMap) ==
  IF rawMap = <<>> THEN descriptor
  ELSE NormalizeInto(
         PutProp(descriptor, Head(rawMap).name,
                 normalizeProperties(Head(rawMap).d, Head(rawMap).name)),
         Tail(rawMap))

\* add(key) with key a descriptor map
addMap(sch, rawMap) ==
  applyDocumentKey(
    [RegisterIndexes(RegisterRefs(sch, getRefs(rawMap)), getIndexes(rawMap))
       EXCEPT !.descriptor = NormalizeInto(sch.descriptor, rawMap)])

\* add(key, descriptor) with key a property name
addOne(sch, key, d) ==
  IF key # <<>>
    THEN addMap(sch, <<[name |-> key, d |-> d]>>)
    ELSE applyDocumentKey(sch)

\* new Schema(descriptor, options)
Construct(rawMap, options) ==
  LET r == addMap(NewSchema(options), rawMap)
      s1 == r.s
      s2 == IF s1.key.prefix \in {Null, <<>>} /\ IsString(options.keyPrefix)
              THEN [s1 EXCEPT !.key.prefix = options.keyPrefix] ELSE s1
      s3 == IF options.dynamicKey # "undefined"
              THEN [s2 EXCEPT !.key.dynamicKey = options.dynamicKey] ELSE s2
      s4 == IF s3.key.suffix \in {Null, <<>>} /\ IsString(options.keySuffix)
              THEN [s3 EXCEPT !.key.suffix = options.keySuffix] ELSE s3
  IN IF r.threw # "" THEN Throw(Unbuilt, r.threw) ELSE Ok(s4)

-----------------------------------------------------------------------------
(* index, method, static, virtual, pre, post                               *)

Digits == {"0", "1", "2", "3", "4", "5", "6", "7", "8", "9"}

\* trailingDigitReg.test(p), with trailingDigitReg = /^\d+$/
trailingDigitReg(p) == p # <<>> /\ \A i \in 1..Len(p) : p[i] \in Digits

\* p.replace('.', '_'): the first "." only
RECURSIVE ReplaceFirstDot(_)
ReplaceFirstDot(p) ==
  IF p = <<>> THEN <<>>
  ELSE IF Head(p) = "." THEN <<"_">> \o Tail(p)
  ELSE <<Head(p)>> \o ReplaceFirstDot(Tail(p))

\* schemaUtils.getIndexName: the components joined into one name
RECURSIVE getIndexName(_)
getIndexName(ps) ==
  IF ps = <<>> THEN <<>>
  ELSE IF Len(ps) = 1 THEN Head(ps)
  ELSE Head(ps) \o <<"_", "a", "n", "d", "_">> \o getIndexName(Tail(ps))

\* the name index() infers for one property; Undefined when p[p.length - 2]
\* is undefined, which makes the string call that follows raise
InferredName(p, inArray) ==
  LET q == IF trailingDigitReg(p)
             THEN (IF Len(p) >= 2 THEN <<p[Len(p) - 1]>> ELSE Undefined)
             ELSE p
  IN IF q = Undefined THEN Undefined
     ELSE singularize(IF inArray THEN ReplaceFirstDot(q) ELSE q)

IndexOptions(indexName, indexType, refKeyCase) ==
  [indexName |-> indexName, indexType |-> indexType, refKeyCase |-> refKeyCase]

\* index(prop, options)
index(sch, prop, options) ==
  LET indexType == IF options.indexType = "undefined" THEN "single" ELSE options.indexType
      given == IsString(options.indexName) /\ options.indexName # <<>>
      parts == [i \in 1..Len(prop.names) |-> InferredName(prop.names[i], prop.arr)]
      raises == ~given /\ \E i \in 1..Len(parts) : parts[i] = Undefined
      indexName == IF given THEN options.indexName
                   ELSE IF prop.arr THEN getIndexName(parts)
                   ELSE parts[1]
      indexData == IndexEntry(prop, indexName, indexType, prop.arr, options.refKeyCase)
  IN IF raises THEN Throw(sch, "TypeError")
     ELSE Ok([sch EXCEPT !.indexes = MapPut(@, indexName, indexData)])

Functions == {"fn1", "fn2", "fnGet", "fnSet"}

\* _.isFunction
IsFunction(v) == v \in Functions

\* !v is false
Truthy(v) == v \notin {"undefined", "null", "0", "false", "''"}

\* the first argument of method() and static(): a string, some other scalar,
\* or a plain object (its entries in key order)
StrArg(n) == [t |-> "string", s |-> n, entries |-> <<>>]
NumArg == [t |-> "number", s |-> "", entries |-> <<>>]
ObjArg(es) == [t |-> "object", s |-> "", entries |-> es]
Entry(n, v) == [name |-> n, v |-> v]

\* method(name, func)
RECURSIVE method(_, _, _)
method(sch, name, func) ==
  IF name.t = "object"
    THEN IF name.entries = <<>> THEN Ok(sch)
         ELSE LET r == method(sch, StrArg(Head(name.entries).name), Head(name.entries).v)
              IN IF r.threw # "" THEN r
                 ELSE method(r.s, ObjArg(Tail(name.entries)), func)
  ELSE IF name.t # "string"
    THEN Throw(sch, "Schema#method expects a string identifier as a function name")
  ELSE IF ~IsFunction(func)
    THEN Throw(sch, "Schema#method expects a function as a handle")
  ELSE Ok([sch EXCEPT !.methods = MapPut(@, name.s, func)])

\* static(name, func)
RECURSIVE static(_, _, _)
static(sch, name, func) ==
  IF name.t = "object"
    THEN IF name.entries = <<>> THEN Ok(sch)
         ELSE LET r == static(sch, StrArg(Head(name.entries).name), Head(name.entries).v)
              IN IF r.threw # "" THEN r
                 ELSE static(r.s, ObjArg(Tail(name.entries)), func)
  ELSE IF name.t # "string"
    THEN Throw(sch, "Schema#statics expects a string identifier as a function name")
  ELSE Ok([sch EXCEPT !.statics = MapPut(@, name.s, func)])

\* the second and third argument of virtual(): undefined, a type tag, some
\* other non-object value, or a plain object with its get and set
VArg(kind, type, get, set) == [kind |-> kind, type |-> type, get |-> get, set |-> set]
VUndefined == VArg("undefined", "undefined", "undefined", "undefined")
VType(t) == VArg("type", t, "undefined", "undefined")
VText == VArg("string", "undefined", "undefined", "undefined")
VObject(get, set) == VArg("object", "[object]", get, set)

\* the property name given to virtual(): a string or not
VName(isStr, n) == [str |-> isStr, n |-> n]

\* virtual(name, type, options)
virtual(sch, name, type, options) ==
  LET twoArgs == type.kind = "object" /\ options.kind = "undefined"
      opts == IF twoArgs THEN type ELSE options
      ty == IF twoArgs THEN "any" ELSE type.type
      virtualType ==
        [Prop("object", ty, "undefined", "undefined", "undefined",
              Undefined, Undefined, "undefined")
           EXCEPT !.virtual = "true", !.get = opts.get, !.invisible = "true",
                  !.set = IF Truthy(opts.set) THEN opts.set ELSE "undefined",
                  !.readOnly = IF Truthy(opts.set) THEN "undefined" ELSE "true"]
  IN IF ~name.str
       THEN Throw(sch, "Schema#virtual expects a string identifier as a property name")
     ELSE IF ~twoArgs /\ options.kind # "object"
       THEN Throw(sch, "Schema#virtual expects an object as a handle")
     ELSE IF ~twoArgs /\ ~IsFunction(options.get)
       THEN Throw(sch, "Schema#virtual expects an object with a get function")
     ELSE Ok([sch EXCEPT !.descriptor = PutProp(@, name.n, virtualType)])

\* _hook(hook, name, fn), for the one event name the model uses
hook(sch, h, fn) ==
  IF h = "pre" THEN [sch EXCEPT !.hooks.pre = Append(@, fn)]
               ELSE [sch EXCEPT !.hooks.post = Append(@, fn)]

RECURSIVE HookAll(_, _, _)
HookAll(sch, h, fns) ==
  IF fns = <<>> THEN sch ELSE HookAll(hook(sch, h, Head(fns)), h, Tail(fns))

-----------------------------------------------------------------------------
(* extend                                                                  *)

\* _cloneProp(other, 'descriptor', true), from other's i-th property on
RECURSIVE cloneDescriptorFrom(_, _, _)
cloneDescriptorFrom(sch, other, i) ==
  IF i > Len(other.descriptor) THEN Ok(sch)
  ELSE LET p == other.descriptor[i].name IN
       IF ~HasProp(sch.descriptor, p)
         THEN LET r == addOne(sch, p, other.descriptor[i].d)
              IN IF r.threw # "" THEN r ELSE cloneDescriptorFrom(r.s, other, i + 1)
         ELSE cloneDescriptorFrom(sch, other, i + 1)

\* _cloneProp(other, prop) for statics and methods: ours[p] is kept when truthy
cloneProp(ours, theirs) ==
  [p \in (DOMAIN ours) \cup (DOMAIN theirs) |->
     IF p \in DOMAIN theirs /\ ~(p \in DOMAIN ours /\ Truthy(ours[p]))
       THEN theirs[p] ELSE ours[p]]

MergeField(ours, theirs) == IF ours = "undefined" THEN theirs ELSE ours

\* the options loop of extend
ExtendOptions(ours, theirs) ==
  [ours EXCEPT
     !.keyPrefix = IF @ = Undefined THEN theirs.keyPrefix ELSE @,
     !.keySuffix = IF @ = Undefined THEN theirs.keySuffix ELSE @,
     !.delimiter = IF @ = Undefined THEN theirs.delimiter ELSE @,
     !.refIndexKeyPrefix = IF @ = Undefined THEN theirs.refIndexKeyPrefix ELSE @,
     !.dynamicKey = IF @ = "undefined" THEN theirs.dynamicKey ELSE @,
     !.saveOptions =
        IF ~@.def THEN theirs.saveOptions
        ELSE IF theirs.saveOptions.def
          THEN [def |-> TRUE,
                expiry |-> MergeField(@.expiry, theirs.saveOptions.expiry),
                persist_to |-> MergeField(@.persist_to, theirs.saveOptions.persist_to)]
        ELSE @]

\* extend(other)
extend(sch, other) ==
  IF ~other.built THEN Ok(sch)
  ELSE LET r == cloneDescriptorFrom(sch, other, 1) IN
       IF r.threw # "" THEN r
       ELSE Ok(HookAll(HookAll(
                 [r.s EXCEPT !.statics = cloneProp(@, other.statics),
                             !.methods = cloneProp(@, other.methods),
                             !.options = ExtendOptions(@, other.options)],
                 "pre", other.hooks.pre), "post", other.hooks.post))

-----------------------------------------------------------------------------
(* getDocumentKeyValue and getRefKey                                       *)

\* a dynamicKey function a caller may configure: k => 't/' + (k || '')
dynamicKeyCall(fn, k) == <<"t", "/">> \o (IF IsString(k) THEN k ELSE <<>>)

\* getDocumentKeyValue(id, full)
getDocumentKeyValue(sch, id, full) ==
  IF ~IsString(id) THEN id
  ELSE
    LET prefix == IF IsString(sch.key.prefix) THEN sch.key.prefix ELSE <<>>
        suffix == IF IsString(sch.key.suffix) THEN sch.key.suffix ELSE <<>>
        prefixRX == escapeStringRegexp(prefix)
        suffixRX == escapeStringRegexp(suffix)
        re == RegExpOf(<<"^">> \o prefixRX \o <<".", "*">> \o suffixRX \o <<"$">>)
        test == RegExpTest(re, id)
        isFn == sch.key.dynamicKey # "undefined"
    IN IF full
         THEN IF test
                THEN (IF isFn THEN dynamicKeyCall(sch.key.dynamicKey, id) ELSE id)
                ELSE (IF isFn
                        THEN dynamicKeyCall(sch.key.dynamicKey, prefix \o id \o suffix)
                        ELSE prefix \o id \o suffix)
         ELSE IF test
                THEN RegExpRemove(RegExpOf(suffixRX \o <<"$">>),
                                  RegExpRemove(RegExpOf(<<"^">> \o prefixRX), id))
                ELSE id

MAX_REF_KEY_LENGTH == 250

HexDigits == <<"0", "1", "2", "3", "4", "5", "6", "7", "8", "9", "a", "b", "c", "d", "e", "f">>

CountOf(s, c) == Cardinality({ i \in 1..Len(s) : s[i] = c })

HashWidth == 32

\* crypto.createHash('md5').update(v).digest('hex'): a fixed function of v
\* whose value is 32 hexadecimal digits
md5hex(v) ==
  LET a == Len(v) + (3 * CountOf(v, "a")) + (5 * CountOf(v, "A"))
             + (11 * CountOf(v, "é")) + (13 * CountOf(v, "É"))
      b == IF v = <<>> THEN 7 ELSE CountOf(v, v[1]) + (2 * CountOf(v, v[Len(v)]))
  IN [i \in 1..HashWidth |-> HexDigits[(((a * i) + b + ((i * i) % 7)) % 16) + 1]]

HashedTag == <<"h", "a", "s", "h", "e", "d", "_">>

\* getRefKey: v after the index's refKeyCase is applied  (lines 618-623)
refKeyValue(sch, name, v) ==
  LET hasIndex == name \in DOMAIN sch.indexes IN
  IF hasIndex /\ sch.indexes[name].refKeyCase = "upper" THEN ToUpperCase(v)
  ELSE IF hasIndex /\ sch.indexes[name].refKeyCase = "lower" THEN ToLowerCase(v)
  ELSE v

\* getRefKey: fullPrefix  (lines 613-617, 625)
refKeyPrefix(sch, name) ==
  LET d == sch.options.delimiter
      kp == IF sch.options.dynamicKey # "undefined"
              THEN dynamicKeyCall(sch.options.dynamicKey, Undefined)
              ELSE OrEmpty(sch.options.keyPrefix)
  IN kp \o OrEmpty(sch.options.refIndexKeyPrefix) \o name \o ToText(d)

\* a length test that counts characters where the code counts UTF-8 bytes
refKeyTooLongChars(fullPrefix, v) == Len(fullPrefix \o v) > MAX_REF_KEY_LENGTH

\* getRefKey: whether the value is replaced by its hash  (line 628)
refKeyTooLong(fullPrefix, v) == ByteLength(fullPrefix \o v) > MAX_REF_KEY_LENGTH

\* getRefKey(name, v)
getRefKey(sch, name, v) ==
  LET v1 == refKeyValue(sch, name, v)
      fullPrefix == refKeyPrefix(sch, name)
      v2 == IF refKeyTooLong(fullPrefix, v1) THEN HashedTag \o md5hex(v1) ELSE v1
  IN fullPrefix \o v2

-----------------------------------------------------------------------------
(* Calls on a schema                                                       *)

SchemaIds == {"A", "B"}

NoSchemas == [s \in SchemaIds |-> Unbuilt]

\* a call: the operation, the schema it is made on, the error it raised (""
\* when it returned), its arguments, the number of calls made so far, and
\* the schemas as they were when it was made
Call(op, target, threw, args, count, before) ==
  [op |-> op, target |-> target, threw |-> threw, args |-> args, count |-> count,
   before |-> before]

NoCall == Call("none", "", "", <<>>, 0, NoSchemas)

StringsUpTo(alphabet, n) == UNION { [1..k -> alphabet] : k \in 0..n }

-----------------------------------------------------------------------------
(* Specification SpecKey: getDocumentKeyValue on a constructed schema      *)

MaxIdLen == 3
MaxKeyCalls == 2

KeyAlphabet == {"a", ":", "\n"}

\* the identifiers given to getDocumentKeyValue
KeyIds == StringsUpTo(KeyAlphabet, MaxIdLen) \cup {Undefined}

KeyProp(type, prefix, suffix) ==
  Prop("object", type, "true", "undefined", "undefined", prefix, suffix, "undefined")

\* the descriptors and options the schemas of SpecKey are constructed from
KeyDescriptors ==
  { <<[name |-> NAME, d |-> TypeTag("String")]>>,
    <<[name |-> EMAIL, d |-> KeyProp("String", <<"a", ":">>, Undefined)]>>,
    <<[name |-> EMAIL, d |-> KeyProp("String", <<".">>, <<":", "a">>)]>> }

KeyOptions ==
  { Options(kp, ks, dk, Undefined, Undefined, NoObject) :
      kp \in {Undefined, <<"a", ":">>},
      ks \in {Undefined, <<":">>},
      dk \in {"undefined", "fn1"} }

InitKey ==
  /\ \E rawMap \in KeyDescriptors, options \in KeyOptions :
       schemas = [s \in SchemaIds |->
                    IF s = "A" THEN Construct(rawMap, options).s ELSE Unbuilt]
  /\ last = NoCall
  /\ \E id \in KeyIds : ids = <<id>>
  /\ hist = <<>>
  /\ refCalls = <<>>

\* schema.getDocumentKeyValue(id, full) on the value the previous call returned
GetDocumentKeyValue(full) ==
  /\ Len(hist) < MaxKeyCalls
  /\ ids' = Append(ids, getDocumentKeyValue(schemas["A"], ids[Len(ids)], full))
  /\ hist' = Append(hist, full)
  /\ UNCHANGED <<schemas, last, refCalls>>

KeyFull == GetDocumentKeyValue(TRUE)

KeyShort == GetDocumentKeyValue(FALSE)

NextKey == KeyFull \/ KeyShort

SpecKey == InitKey /\ [][NextKey]_vars

\* the schema has a prefix and a suffix and no dynamic-key function
PlainKey == schemas["A"].built /\ schemas["A"].key.dynamicKey = "undefined"

\* C1: in full mode getDocumentKeyValue is idempotent: expanding the result of an
\* expansion returns that result unchanged, for every string id and every
\* prefix and suffix.
C1_FullIsIdempotent ==
  (PlainKey /\ IsString(ids[1]) /\ hist = <<TRUE, TRUE>>) => ids[3] = ids[2]

\* C2: expanding an id and then stripping the result gives the same bare
\* identifier as stripping the id itself.
C2_RoundTrip ==
  (PlainKey /\ hist = <<TRUE, FALSE>>)
    => ids[3] = getDocumentKeyValue(schemas["A"], ids[1], FALSE)

-----------------------------------------------------------------------------
(* Specification SpecRef: getRefKey on a constructed schema                *)

MaxRefCalls == 2

\* the longest keyPrefix with which a hashed key of index "email" and a
\* one-character delimiter still fits the limit
FitPrefixLen == MAX_REF_KEY_LENGTH - Len(HashedTag) - HashWidth - Len(EMAIL) - 1

RefOptions ==
  { Options(kp, Undefined, dk, d, rp, NoObject) :
      kp \in {Undefined, Rep("k", FitPrefixLen), Rep("k", FitPrefixLen + 1)},
      dk \in {"undefined", "fn1"},
      d \in {<<"_">>, Undefined},
      rp \in {Undefined, <<"$">>} }

RefNames == {EMAIL}

\* values whose natural key is long, under some of the options
LongRefValues ==
  { Rep("a", MAX_REF_KEY_LENGTH - Len(EMAIL)),
    Rep("é", (MAX_REF_KEY_LENGTH \div 2) - 2) }

\* the values given to getRefKey: short ones, long ones, and short ones that
\* look like the hashed form of a long one
RefValues ==
  {<<"a", "b">>, <<"A", "b">>}
    \cup LongRefValues
    \cup { HashedTag \o md5hex(Rep("a", MAX_REF_KEY_LENGTH - Len(EMAIL))) }

InitRef ==
  /\ \E options \in RefOptions :
       schemas = [s \in SchemaIds |->
                    IF s = "A"
                      THEN Construct(<<[name |-> EMAIL, d |-> TypeTag("String")]>>, options).s
                      ELSE Unbuilt]
  /\ last = NoCall
  /\ ids = <<>>
  /\ hist = <<>>
  /\ refCalls = <<>>

\* schema.index('email', {refKeyCase})
RefIndex ==
  /\ \E rc \in {"upper", "lower"} :
       schemas' = [schemas EXCEPT !["A"] =
                     index(@, OneProp(EMAIL), IndexOptions(Undefined, "undefined", rc)).s]
  /\ UNCHANGED <<last, ids, hist, refCalls>>

\* schema.getRefKey(name, v)
RefGetRefKey ==
  /\ Len(refCalls) < MaxRefCalls
  /\ \E name \in RefNames, v \in RefValues :
       refCalls' = Append(refCalls,
                     [name |-> name, v |-> v,
                      case |-> IF name \in DOMAIN schemas["A"].indexes
                                 THEN schemas["A"].indexes[name].refKeyCase
                                 ELSE "undefined",
                      fullPrefix |-> refKeyPrefix(schemas["A"], name),
                      key |-> getRefKey(schemas["A"], name, v)])
  /\ UNCHANGED <<schemas, last, ids, hist>>

NextRef == RefIndex \/ RefGetRefKey

SpecRef == InitRef /\ [][NextRef]_vars

\* the call's value, case-folded as the index's refKeyCase says
Folded(c) ==
  IF c.case = "upper" THEN ToUpperCase(c.v)
  ELSE IF c.case = "lower" THEN ToLowerCase(c.v)
  ELSE c.v

\* the call's natural key: the base prefix and the case-folded value
NaturalKey(c) == c.fullPrefix \o Folded(c)

\* the call's natural key is longer than the limit
NaturalTooLong(c) == ByteLength(NaturalKey(c)) > MAX_REF_KEY_LENGTH

IsHex(s) == \A i \in 1..Len(s) : \E j \in 1..Len(HexDigits) : s[i] = HexDigits[j]

\* C3: every key getRefKey returns is at most 250 bytes long, for every
\* configuration, index name and value.
C3_KeyWithinLimit ==
  \A i \in 1..Len(refCalls) : ByteLength(refCalls[i].key) <= MAX_REF_KEY_LENGTH

\* C4 as stated: a key whose natural form is too long starts with hashed_ and
\* differs from the natural form; any other key is the natural form.
C4_AsStated ==
  \A i \in 1..Len(refCalls) :
    LET c == refCalls[i] IN
    IF NaturalTooLong(c)
      THEN StartsWith(c.key, HashedTag) /\ c.key # NaturalKey(c)
      ELSE c.key = NaturalKey(c)

\* C4 as amended: a key whose natural form is too long is the base prefix
\* followed by hashed_ and 32 hexadecimal digits, and differs from the natural
\* form whenever the base prefix leaves room for the hashed value; any other
\* key is the natural form (the value case-folded).
C4_HashedAfterPrefix ==
  \A i \in 1..Len(refCalls) :
    LET c == refCalls[i]
        rest == SubSeq(c.key, Len(c.fullPrefix) + 1, Len(c.key))
    IN IF NaturalTooLong(c)
         THEN /\ StartsWith(c.key, c.fullPrefix)
              /\ StartsWith(rest, HashedTag)
              /\ Len(rest) = Len(HashedTag) + HashWidth
              /\ IsHex(SubSeq(rest, Len(HashedTag) + 1, Len(rest)))
              /\ (ByteLength(c.fullPrefix) + Len(HashedTag) + HashWidth <= MAX_REF_KEY_LENGTH
                    => c.key # NaturalKey(c))
         ELSE c.key = NaturalKey(c)

\* a long value has been hashed behind a non-empty prefix, and a short one
\* has been returned in its natural form
C4_Witness ==
  /\ \E i \in 1..Len(refCalls) :
       NaturalTooLong(refCalls[i]) /\ refCalls[i].fullPrefix # <<>>
  /\ \E i \in 1..Len(refCalls) :
       ~NaturalTooLong(refCalls[i]) /\ Folded(refCalls[i]) # refCalls[i].v

\* C5: the key of a value that is hashed differs from the key of any other
\* value, on the same schema and index name, that is not hashed.
C5_HashedNeverCollides ==
  \A i, j \in 1..Len(refCalls) :
    LET c1 == refCalls[i]
        c2 == refCalls[j]
    IN (/\ c1.name = c2.name
        /\ c1.fullPrefix = c2.fullPrefix
        /\ c1.v # c2.v
        /\ NaturalTooLong(c1)
        /\ ~NaturalTooLong(c2)) => c1.key # c2.key

-----------------------------------------------------------------------------
(* Calls that build a schema                                               *)

FULL == <<"f", "u", "l", "l">>

PlainProp(type, key, idx, ref) ==
  Prop("object", type, key, idx, ref, Undefined, Undefined, "undefined")

\* the argument of add(): a property name with its descriptor, or a map
AddArg(form, name, d, map) == [form |-> form, name |-> name, d |-> d, map |-> map]
AddOneArg(name, d) == AddArg("one", name, d, <<>>)
AddMapArg(map) == AddArg("map", <<>>, TypeTag("String"), map)

\* add(key, descriptor)
add(sch, a) == IF a.form = "one" THEN addOne(sch, a.name, a.d) ELSE addMap(sch, a.map)

\* the result r of a call op(args) on schema s
Record(s, op, args, r) ==
  /\ schemas' = [schemas EXCEPT ![s] = r.s]
  /\ last' = Call(op, s, r.threw, args, last.count + 1, schemas)
  /\ UNCHANGED <<ids, hist, refCalls>>

\* new Schema(descriptor, options)
DoConstruct(s, descriptors, optionSets) ==
  /\ ~schemas[s].built
  /\ \E rawMap \in descriptors, options \in optionSets :
       LET r == Construct(rawMap, options) IN
       /\ schemas' = [schemas EXCEPT ![s] = r.s]
       /\ last' = Call("construct", s, r.threw, [map |-> rawMap, options |-> options],
                       last.count, schemas)
       /\ UNCHANGED <<ids, hist, refCalls>>

DoAdd(s, bound, args) ==
  /\ schemas[s].built /\ last.count < bound
  /\ \E a \in args : Record(s, "add", a, add(schemas[s], a))

DoIndex(s, bound, args) ==
  /\ schemas[s].built /\ last.count < bound
  /\ \E a \in args : Record(s, "index", a, index(schemas[s], a.prop, a.options))

DoMethod(s, bound, args) ==
  /\ schemas[s].built /\ last.count < bound
  /\ \E a \in args : Record(s, "method", a, method(schemas[s], a.name, a.func))

DoStatic(s, bound, args) ==
  /\ schemas[s].built /\ last.count < bound
  /\ \E a \in args : Record(s, "static", a, static(schemas[s], a.name, a.func))

DoVirtual(s, bound, args) ==
  /\ schemas[s].built /\ last.count < bound
  /\ \E a \in args :
       Record(s, "virtual", a, virtual(schemas[s], a.name, a.type, a.options))

\* pre(name, fn) and post(name, fn)
DoHook(s, bound, h) ==
  /\ schemas[s].built /\ last.count < bound
  /\ Len(schemas[s].hooks[h]) < bound
  /\ Record(s, h, "fn1", Ok(hook(schemas[s], h, "fn1")))

DoExtend(s, bound) ==
  /\ schemas[s].built /\ last.count < bound
  /\ \E o \in SchemaIds \ {s} :
       Record(s, "extend", o, extend(schemas[s], schemas[o]))

-----------------------------------------------------------------------------
(* Specification Spec: one schema, built and then changed call by call     *)

MaxOps == 2

Descriptors ==
  { <<[name |-> NAME, d |-> TypeTag("String")]>>,
    <<[name |-> EMAIL, d |-> PlainProp("String", "true", "undefined", "undefined")]>>,
    <<[name |-> ID, d |-> PlainProp("String", "true", "true", "undefined")]>>,
    <<[name |-> ID, d |-> PlainProp("String", "true", "undefined", "Other")]>>,
    <<[name |-> ID, d |-> PlainProp("Object", "true", "undefined", "undefined")]>>,
    <<[name |-> EMAIL, d |-> PlainProp("String", "true", "undefined", "undefined")],
      [name |-> NAME, d |-> PlainProp("Number", "true", "undefined", "undefined")]>> }

OptionSets ==
  { NoOptions,
    Options(<<"u", ":">>, Undefined, "undefined", <<"_">>, Undefined,
            [def |-> TRUE, expiry |-> "1", persist_to |-> "undefined"]) }

\* key properties that declare a prefix and a suffix of their own
PrefixDescriptors ==
  { <<[name |-> EMAIL,
       d |-> Prop("object", "String", "true", "undefined", "undefined", pre, suf, "undefined")]>> :
      pre \in {<<>>, <<"p", ":">>}, suf \in {<<>>, Undefined} }

\* options that set both keyPrefix and keySuffix
PrefixOptionSets ==
  { Options(<<"u", ":">>, <<":", "s">>, "undefined", <<"_">>, Undefined, NoObject) }

AddArgs ==
  { AddOneArg(EMAIL, d) :
      d \in { TypeTag("String"),
              PlainProp("String", "true", "undefined", "undefined"),
              PlainProp("String", "undefined", "true", "undefined"),
              PlainProp("String", "true", "true", "undefined"),
              PlainProp("String", "true", "undefined", "Other"),
              PlainProp("Object", "true", "undefined", "undefined"),
              PlainProp("Object", "undefined", "undefined", "undefined") } }
    \cup { AddOneArg(NAME, PlainProp("Number", "true", "undefined", "undefined")),
           AddMapArg(<<[name |-> NAME, d |-> PlainProp("undefined", "undefined", "undefined", "Other")],
                       [name |-> EMAIL, d |-> TypeTag("Number")]>>) }

IndexArg(prop, options) == [prop |-> prop, options |-> options]

NoIndexOptions == IndexOptions(Undefined, "undefined", "undefined")

IndexArgs ==
  { IndexArg(OneProp(p), NoIndexOptions) : p \in {USERS, ITEM2, EMAIL, <<"4", "2">>, <<"7">>} }
    \cup { IndexArg(ArrProp(<<EMAIL, USERS>>), NoIndexOptions),
           IndexArg(ArrProp(<<EMAIL, ITEM2>>),
                    IndexOptions(<<"E", "m", "a", "i", "l", "A", "n", "d", "I", "t", "e", "m">>,
                                 "array", "upper")),
           IndexArg(OneProp(USERS), IndexOptions(EMAIL, "undefined", "undefined")) }

FuncArg(name, func) == [name |-> name, func |-> func]

MethodArgs ==
  { FuncArg(StrArg("foo"), "fn1"), FuncArg(StrArg("foo"), "'bar'"),
    FuncArg(NumArg, "fn1"),
    FuncArg(ObjArg(<<Entry("foo", "fn2"), Entry("bar", "'bar'")>>), "undefined"),
    FuncArg(ObjArg(<<Entry("bar", "fn2")>>), "undefined") }

StaticArgs ==
  { FuncArg(StrArg("foo"), "fn1"), FuncArg(StrArg("foo"), "0"),
    FuncArg(StrArg("foo"), "'bar'"), FuncArg(NumArg, "fn1"),
    FuncArg(ObjArg(<<Entry("bar", "fn2")>>), "undefined") }

VirtualArg(name, type, options) == [name |-> name, type |-> type, options |-> options]

VirtualArgs ==
  { VirtualArg(VName(TRUE, FULL), VObject("fnGet", "undefined"), VUndefined),
    VirtualArg(VName(TRUE, FULL), VObject("undefined", "undefined"), VUndefined),
    VirtualArg(VName(TRUE, FULL), VText, VUndefined),
    VirtualArg(VName(TRUE, FULL), VType("String"), VObject("fnGet", "fnSet")),
    VirtualArg(VName(TRUE, FULL), VType("String"), VObject("undefined", "undefined")),
    VirtualArg(VName(TRUE, FULL), VType("String"), VText),
    VirtualArg(VName(FALSE, <<>>), VObject("fnGet", "undefined"), VUndefined),
    VirtualArg(VName(FALSE, <<>>), VType("String"), VObject("fnGet", "fnSet")) }

Init ==
  /\ schemas = NoSchemas
  /\ last = NoCall
  /\ ids = <<>>
  /\ hist = <<>>
  /\ refCalls = <<>>

Next ==
  \/ DoConstruct("A", Descriptors \cup PrefixDescriptors, OptionSets \cup PrefixOptionSets)
  \/ DoVirtual("A", MaxOps, VirtualArgs)
  \/ DoAdd("A", MaxOps, AddArgs)
  \/ DoIndex("A", MaxOps, IndexArgs)
  \/ DoMethod("A", MaxOps, MethodArgs)
  \/ DoStatic("A", MaxOps, StaticArgs)
  \/ DoHook("A", MaxOps, "pre")
  \/ DoHook("A", MaxOps, "post")

Spec == Init /\ [][Next]_vars

Built == { s \in SchemaIds : schemas[s].built }

KeyMarked(sch) ==
  { n \in PropNames(sch.descriptor) : GetProp(sch.descriptor, n).key = "true" }

DeclaresKey(rawMap) ==
  \E i \in 1..Len(rawMap) : rawMap[i].d.shape = "object" /\ rawMap[i].d.key = "true"

\* C7: every built schema has exactly one document key: key.docKeyKey is not
\* empty and names a property of descriptor, no other property is marked
\* key: true, and a schema constructed without a key property has the
\* synthesized key id, of string type, with key.generate true.
C7_ExactlyOneKey ==
  \A s \in Built :
    LET sch == schemas[s] IN
    /\ sch.key.docKeyKey # <<>>
    /\ HasProp(sch.descriptor, sch.key.docKeyKey)
    /\ KeyMarked(sch) \subseteq {sch.key.docKeyKey}
    /\ (last.op = "construct" /\ last.target = s /\ ~DeclaresKey(last.args.map))
         => /\ sch.key.docKeyKey = ID
            /\ GetProp(sch.descriptor, ID).type = "String"
            /\ sch.key.generate = "true"

\* a key property that is also an index or a reference, or of a type other
\* than string and number
BadKeyProp(d) ==
  /\ d.shape = "object" /\ d.key = "true"
  /\ (d.index = "true" \/ d.ref # "undefined" \/ ~KeyTypeAllowed(d.type))

DeclaresBadKey(rawMap) == \E i \in 1..Len(rawMap) : BadKeyProp(rawMap[i].d)

AddedMap(a) == IF a.form = "one" THEN <<[name |-> a.name, d |-> a.d]>> ELSE a.map

\* C8: constructing a schema, or calling add(), with a key property that is
\* also an index or a reference or of a disallowed type raises; and so the
\* document-key property of a built schema is never an index, a reference or
\* of a disallowed type.
C8_KeyConflictRejected ==
  /\ (last.op = "construct" /\ DeclaresBadKey(last.args.map)) => last.threw # ""
  /\ (last.op = "add" /\ DeclaresBadKey(AddedMap(last.args))) => last.threw # ""
  /\ \A s \in Built :
       LET d == GetProp(schemas[s].descriptor, schemas[s].key.docKeyKey) IN
       /\ d.index # "true"
       /\ d.ref = "undefined"
       /\ d.type \in {"String", "Number", "'string'", "'number'", "any"}

\* the calls C9 names as invalid
InvalidMethodCall(a) ==
  IF a.name.t = "object"
    THEN \E i \in 1..Len(a.name.entries) : ~IsFunction(a.name.entries[i].v)
    ELSE a.name.t # "string" \/ ~IsFunction(a.func)

InvalidVirtualCall(a) ==
  LET opts == IF a.options.kind = "undefined" THEN a.type ELSE a.options IN
  \/ ~a.name.str
  \/ opts.kind # "object"
  \/ ~IsFunction(opts.get)

\* C9: method and static raise on a name that is not a string or a handler
\* that is not a function; virtual raises on a name that is not a string, on
\* options that are not an object, and on options without a getter, in its
\* two-argument and its three-argument form; and a call that raises
\* registers nothing.
C9_InvalidArgumentsRaise ==
  /\ (last.op = "virtual" /\ InvalidVirtualCall(last.args)) => last.threw # ""
  /\ (last.op = "method" /\ InvalidMethodCall(last.args)) => last.threw # ""
  /\ (last.op = "static" /\ InvalidMethodCall(last.args)) => last.threw # ""
  /\ (last.op \in {"virtual", "method", "static"} /\ last.threw # "")
       => schemas[last.target] = last.before[last.target]

\* the name C10 says index() infers: the trailing digits dropped, the rest
\* singularized
RECURSIVE DropTrailingDigits(_)
DropTrailingDigits(p) ==
  IF p # <<>> /\ p[Len(p)] \in Digits
    THEN DropTrailingDigits(SubSeq(p, 1, Len(p) - 1))
    ELSE p

\* every name of prop is more than a digit suffix
HasToken(prop) ==
  \A i \in 1..Len(prop.names) : DropTrailingDigits(prop.names[i]) # <<>>

StatedIndexName(prop, options) ==
  IF IsString(options.indexName) /\ options.indexName # <<>> THEN options.indexName
  ELSE IF prop.arr
    THEN getIndexName([i \in 1..Len(prop.names) |->
                         singularize(DropTrailingDigits(prop.names[i]))])
  ELSE singularize(DropTrailingDigits(prop.names[1]))

\* C10: index(prop, options) writes exactly one entry of indexes and leaves
\* the others as they were; the entry is keyed by options.indexName, or else
\* by the name inferred by dropping trailing digits and singularizing; its
\* name is its key, its path is prop, and compound tells whether prop is a
\* sequence.
C10_IndexRegistersOneEntry ==
  (last.op = "index" /\ last.threw = "" /\ HasToken(last.args.prop)) =>
    LET key == StatedIndexName(last.args.prop, last.args.options)
        old == last.before[last.target].indexes
        new == schemas[last.target].indexes
    IN /\ DOMAIN new = (DOMAIN old) \cup {key}
       /\ \A k \in (DOMAIN old) \ {key} : new[k] = old[k]
       /\ new[key].name = key
       /\ new[key].path = last.args.prop
       /\ new[key].compound = last.args.prop.arr

\* the raw descriptor of the one property the caller marked key: true
DeclaredKeyProps(rawMap) ==
  { i \in 1..Len(rawMap) : rawMap[i].d.shape = "object" /\ rawMap[i].d.key = "true" }

\* the value the claim gives key.prefix or key.suffix: the key property's own
\* string, else the schema-level option, else the default null
StatedAffix(own, option) ==
  IF IsString(own) THEN own ELSE IF IsString(option) THEN option ELSE Null

\* C11: after construction key.prefix is the prefix the key property declares
\* as a string, the empty string included, and key.suffix its suffix; the
\* schema-level keyPrefix and keySuffix are used only when the key property
\* declares none.
C11_PropertyAffixFirst ==
  (/\ last.op = "construct" /\ last.threw = ""
   /\ Cardinality(DeclaredKeyProps(last.args.map)) = 1) =>
    LET d == last.args.map[CHOOSE i \in DeclaredKeyProps(last.args.map) : TRUE].d
        sch == schemas[last.target]
    IN /\ sch.key.prefix = StatedAffix(d.prefix, last.args.options.keyPrefix)
       /\ sch.key.suffix = StatedAffix(d.suffix, last.args.options.keySuffix)

\* the part of a schema a failed add() must leave alone
Metadata(sch) ==
  [descriptor |-> sch.descriptor, refs |-> sch.refs, indexes |-> sch.indexes,
   key |-> sch.key]

\* C12: an add() that raises leaves descriptor, refs, indexes and the key
\* policy as they were before the call, and a following add() of a valid
\* property succeeds.
C12_FailedAddHasNoEffect ==
  (last.op = "add" /\ last.threw # "") =>
    /\ Metadata(schemas[last.target]) = Metadata(last.before[last.target])
    /\ add(schemas[last.target], AddOneArg(NAME, TypeTag("String"))).threw = ""

-----------------------------------------------------------------------------
(* Specification SpecExtend: two schemas, one extended by the other        *)

MaxExtendOps == 3

ExtendDescriptors ==
  { <<[name |-> NAME, d |-> TypeTag("String")]>>,
    <<[name |-> EMAIL, d |-> PlainProp("String", "true", "undefined", "undefined")]>> }

ExtendAddArgs == { AddOneArg(NAME, TypeTag("Number")) }

ExtendMethodArgs ==
  { FuncArg(StrArg("foo"), "fn1"), FuncArg(StrArg("foo"), "fn2"),
    FuncArg(StrArg("bar"), "fn2") }

ExtendStaticArgs ==
  { FuncArg(StrArg("foo"), "0"), FuncArg(StrArg("foo"), "fn1"),
    FuncArg(StrArg("bar"), "'bar'") }

NextExtend ==
  \E s \in SchemaIds :
    \/ DoConstruct(s, ExtendDescriptors, OptionSets)
    \/ DoAdd(s, MaxExtendOps, ExtendAddArgs)
    \/ DoMethod(s, MaxExtendOps, ExtendMethodArgs)
    \/ DoStatic(s, MaxExtendOps, ExtendStaticArgs)
    \/ DoHook(s, MaxExtendOps, "pre")
    \/ DoHook(s, MaxExtendOps, "post")
    \/ DoExtend(s, MaxExtendOps)

SpecExtend == Init /\ [][NextExtend]_vars

\* C6: A.extend(B) leaves every entry A already has in descriptor, methods
\* and statics as it was, whatever its value; adds every entry B has and A
\* lacks, with B's value; and leaves B unchanged.
C6_ExtendNeverOverwrites ==
  (last.op = "extend" /\ last.threw = "") =>
    LET a0 == last.before[last.target]
        b0 == last.before[last.args]
        a1 == schemas[last.target]
    IN /\ \A p \in DOMAIN a0.methods : a1.methods[p] = a0.methods[p]
       /\ \A p \in DOMAIN a0.statics : a1.statics[p] = a0.statics[p]
       /\ \A n \in PropNames(a0.descriptor) :
            GetProp(a1.descriptor, n) = GetProp(a0.descriptor, n)
       /\ b0.built =>
            /\ \A p \in (DOMAIN b0.methods) \ (DOMAIN a0.methods) :
                 p \in DOMAIN a1.methods /\ a1.methods[p] = b0.methods[p]
            /\ \A p \in (DOMAIN b0.statics) \ (DOMAIN a0.statics) :
                 p \in DOMAIN a1.statics /\ a1.statics[p] = b0.statics[p]
            /\ \A n \in PropNames(b0.descriptor) \ PropNames(a0.descriptor) :
                 /\ HasProp(a1.descriptor, n)
                 /\ GetProp(a1.descriptor, n) = GetProp(b0.descriptor, n)
       /\ schemas[last.args] = b0

=============================================================================
